---- MODULE Spec2Model ----
(***************************************************************************)
(* A model of the news-composition pipeline: the chunker of                *)
(* text_processing.py, the plugin operations of news_agent_plugin.py and   *)
(* the orchestrator ControlAgent.compose_industry_news of control_agent.py.*)
(*                                                                         *)
(* Four specifications share the variables:                                *)
(*   ChunkSpec      chunk_text alone, on texts and settings drawn from     *)
(*                  bounded sets (the claims about the pure function);     *)
(*   Spec           up to MaxCalls compose_industry_news calls on one      *)
(*                  ControlAgent, every collaborator's outcome chosen      *)
(*                  nondeterministically;                                  *)
(*   FirstCallSpec  the first of these calls alone;                        *)
(*   HistorySpec    the first call, with save_session_history and          *)
(*                  load_session_history called before or after it.        *)
(***************************************************************************)
EXTENDS Integers, Sequences, FiniteSets, TLC

VARIABLES
    \* ---- chunk_text's frame (text_processing.py:15-31)
    text,            \* the argument text, a sequence of characters
    chunk_size,      \* the argument chunk_size
    overlap,         \* the argument overlap
    start,           \* the cursor
    chunks,          \* the list being built
    windows,         \* the (start, end) of every window emitted so far
    \* ---- the orchestrator and the plugin
    pc,              \* where the running call stands
    config,          \* CHUNK_SIZE and CHUNK_OVERLAP of config.py
    now,             \* the wall clock, in seconds
    next_id,         \* how many identifiers generate_unique_id has handed out
    ncalls,          \* compose_industry_news calls started so far
    texts_served,    \* pages scraped with a non-empty text so far
    session_history, \* ControlAgent.session_history
    collection,      \* the Chroma collection: a sequence of entries
    history_file,    \* session_history.json: missing, or what was dumped to it
    call,            \* the arguments of the running call, session_id resolved
    llm_response,    \* what the completion service answered in this call
    keywords_result, \* extract_search_keywords' return value
    search_i,        \* fetch_industry_news: items of keywords already searched
    articles,        \* fetch_industry_news' list; then process_articles' input
    fetched,         \* per article handled so far, the text scrape_article returned
    article_id,      \* the article_id of the article being embedded
    chunk_i,         \* process_articles: chunks of this article already embedded
    processed_data,  \* process_articles' rows
    store_i,         \* store_in_vector_db: rows already added
    composed_results,\* the report being assembled
    result           \* what the call returned

chunkVars == <<text, chunk_size, overlap, start, chunks, windows>>

baseVars == <<config, now, next_id, ncalls, texts_served, session_history, collection,
              history_file>>
callVars == <<call, llm_response, keywords_result, search_i, articles>>
ingestVars == <<fetched, article_id, chunk_i, processed_data, store_i>>
outVars == <<composed_results, result>>

agentVars == <<baseVars, callVars, ingestVars, outVars>>

vars == <<chunkVars, pc, agentVars>>

(***************************************************************************)
(* Bounds of the model.                                                    *)
(***************************************************************************)
MaxLen == 4          \* longest text handed to chunk_text in ChunkSpec
MaxSize == 3         \* largest chunk_size in ChunkSpec
MaxOverlap == 4      \* largest overlap in ChunkSpec (overlap >= chunk_size included)
ChunkCap == MaxLen + 2
    \* chunk_text's loop is followed for at most ChunkCap iterations. A call
    \* that returns on a non-empty text has overlap = 0 (see C1) and emits at
    \* most Len(text) <= MaxLen chunks, so the cap cuts only calls that do
    \* not return.

Chars == {"a", "b"}

Min(a, b) == IF a < b THEN a ELSE b
Max(a, b) == IF a > b THEN a ELSE b

TextsUpTo(n) == UNION {[1..k -> Chars] : k \in 0..n}

(***************************************************************************)
(* Python's s[i:j] on a sequence: a negative index counts from the end,    *)
(* both indices are clipped to [0, len], an empty range gives ''.          *)
(***************************************************************************)
SliceIndex(n, i) == IF i < 0 THEN Max(i + n, 0) ELSE Min(i, n)

PySlice(s, i, j) ==
    LET lo == SliceIndex(Len(s), i)
        hi == SliceIndex(Len(s), j)
    IN  IF lo < hi THEN SubSeq(s, lo + 1, hi) ELSE <<>>

(***************************************************************************)
(* chunk_text, text_processing.py:15-31.                                   *)
(***************************************************************************)
\* lines 22-24: end = start + chunk_size, clipped to the text's length
WindowEnd(t, size, s) == IF s + size > Len(t) THEN Len(t) ELSE s + size

\* line 29: start = end - overlap
NextStart(t, size, ov, s) == WindowEnd(t, size, s) - ov

\* lines 17-19: chunks = [], start = 0
ChunkEnter(t, size, ov) ==
    /\ text' = t
    /\ chunk_size' = size
    /\ overlap' = ov
    /\ start' = 0
    /\ chunks' = <<>>
    /\ windows' = <<>>

\* lines 21-29, with the loop condition start <= len(text)
ChunkIterInclusive ==
    /\ pc = "chunk_loop"
    /\ start <= Len(text)
    /\ Len(chunks) < ChunkCap
    /\ LET end == WindowEnd(text, chunk_size, start)
       IN  /\ chunks' = Append(chunks, PySlice(text, start, end))
           /\ windows' = Append(windows, <<start, end>>)
           /\ start' = NextStart(text, chunk_size, overlap, start)
    /\ UNCHANGED <<text, chunk_size, overlap, pc, agentVars>>

\* lines 21-29: one iteration of the while loop
ChunkIter ==
    /\ pc = "chunk_loop"
    /\ start < Len(text)
    /\ Len(chunks) < ChunkCap
    /\ LET end == WindowEnd(text, chunk_size, start)
       IN  /\ chunks' = Append(chunks, PySlice(text, start, end))
           /\ windows' = Append(windows, <<start, end>>)
           /\ start' = NextStart(text, chunk_size, overlap, start)
    /\ UNCHANGED <<text, chunk_size, overlap, pc, agentVars>>

\* lines 21, 31: the loop condition fails and chunk_text returns chunks
ChunkReturn ==
    /\ pc = "chunk_loop"
    /\ ~(start < Len(text))
    /\ pc' = "chunk_done"
    /\ UNCHANGED <<chunkVars, agentVars>>

(***************************************************************************)
(* The program's settings and the values the model draws inputs from.      *)
(***************************************************************************)
CHUNK_SIZE == 1000
CHUNK_OVERLAP == 200

\* config.py as shipped, and a deployment that sets CHUNK_OVERLAP to 0 (with
\* a chunk size small enough for the model's texts to span several chunks):
\* the only kind of setting under which chunk_text returns on an article.
ShippedSettings == [size |-> CHUNK_SIZE, overlap |-> CHUNK_OVERLAP]
Settings == {ShippedSettings, [size |-> 2, overlap |-> 0]}

NoCall == [company_name |-> "", focus_points |-> <<>>, session_id |-> <<"none", 0>>,
           max_results |-> 0, time_period |-> ""]
NoValue == [kind |-> "none"]

\* no file at the path of session_history.json
MissingFile == [kind |-> "missing"]

\* where a ControlAgent stands when none of its methods is running
BetweenCalls == {"idle", "Composed", "Failed", "Saved", "Loaded"}

\* No frame of an earlier call is left when a call starts.
CallReset ==
    /\ llm_response' = "none"
    /\ keywords_result' = NoValue
    /\ search_i' = 0
    /\ articles' = <<>>
    /\ fetched' = <<>>
    /\ article_id' = 0
    /\ chunk_i' = 0
    /\ processed_data' = <<>>
    /\ store_i' = 0
    /\ composed_results' = NoValue
    /\ text' = <<>>
    /\ chunk_size' = 0
    /\ overlap' = 0
    /\ start' = 0
    /\ chunks' = <<>>
    /\ windows' = <<>>

AgentIdle ==
    /\ now = 0
    /\ next_id = 0
    /\ ncalls = 0
    /\ texts_served = 0
    /\ session_history = <<>>
    /\ collection = <<>>
    /\ history_file = MissingFile
    /\ call = NoCall
    /\ llm_response = "none"
    /\ keywords_result = NoValue
    /\ search_i = 0
    /\ articles = <<>>
    /\ fetched = <<>>
    /\ article_id = 0
    /\ chunk_i = 0
    /\ processed_data = <<>>
    /\ store_i = 0
    /\ composed_results = NoValue
    /\ result = NoValue

(***************************************************************************)
(* ChunkSpec: chunk_text called once on a text, a chunk_size > 0 and an    *)
(* overlap >= 0 drawn from the bounded sets.                               *)
(***************************************************************************)
ChunkInit ==
    /\ text \in TextsUpTo(MaxLen)
    /\ chunk_size \in 1..MaxSize
    /\ overlap \in 0..MaxOverlap
    /\ start = 0
    /\ chunks = <<>>
    /\ windows = <<>>
    /\ pc = "chunk_loop"
    /\ config = ShippedSettings
    /\ AgentIdle

ChunkNext == ChunkIter \/ ChunkReturn

ChunkSpec == ChunkInit /\ [][ChunkNext]_vars

(***************************************************************************)
(* Inputs of compose_industry_news and answers of the collaborators.       *)
(***************************************************************************)
MaxFocus == 2        \* longest focus_points list of a call
MaxCalls == 2        \* compose_industry_news calls on one ControlAgent
MaxResults == 1      \* largest max_results of a call
MaxTime == 1         \* seconds the wall clock may advance
MaxTexts == 2        \* pages, over all calls, whose scrape gives a text

FocusPoints == {"A", "B"}
FocusLists == UNION {[1..k -> FocusPoints] : k \in 0..MaxFocus}

\* session_id as the caller passes it: None, or an identifier of the caller's
NoSessionId == <<"none", 0>>
CallerSessionIds == {<<"caller", 1>>}

\* what the search engine can list, and what scraping a listed page can give
Page1 == [link |-> "u1", title |-> "t1", snippet |-> "n1"]
Page2 == [link |-> "u2", title |-> "t2", snippet |-> "n2"]
OrganicResults == {<<>>, <<Page1>>, <<Page1, Page2>>}
ArticleText == <<"a", "b", "c">>

\* distances the index can report, in tenths
Distances == {3}

KeywordsFor(fp) == <<"kw_" \o fp>>

RECURSIVE Dedup(_)
\* the keys of a dict built from the focus points, in insertion order
Dedup(seq) ==
    IF seq = <<>> THEN <<>>
    ELSE LET rest == Dedup(SubSeq(seq, 1, Len(seq) - 1))
             last == seq[Len(seq)]
         IN  IF \E j \in 1..Len(rest) : rest[j] = last THEN rest
             ELSE Append(rest, last)

\* The completion service's answers to the prompt for focus points fps: no
\* answer (the call raises), an empty text, a text that is not JSON, JSON of
\* another shape than the prompt asks for, or the JSON asked for, with
\* keywords for every distinct focus point or for none.
LlmResponses(fps) ==
    {[kind |-> "raise"], [kind |-> "empty"], [kind |-> "unparseable"],
     [kind |-> "other_json"]}
    \cup {[kind |-> "json",
           value |-> [kind |-> "dict", industry |-> "Automotive",
                      keywords |-> [j \in 1..n |->
                                       <<Dedup(fps)[j], KeywordsFor(Dedup(fps)[j])>>]]] :
          n \in {0, Len(Dedup(fps))}}

(***************************************************************************)
(* NewsAgentPlugin.extract_search_keywords, news_agent_plugin.py:60-99.    *)
(***************************************************************************)
\* line 99: the value returned when the answer is empty or does not parse
DefaultKeywords == [kind |-> "dict", industry |-> "None", keywords |-> <<>>]

\* lines 93-99: json.loads of the answer, or the default
ParseLlmOutput(r) ==
    CASE r.kind \in {"empty", "unparseable"} -> DefaultKeywords
      [] r.kind = "other_json" -> [kind |-> "other"]
      [] OTHER -> r.value

(***************************************************************************)
(* ControlAgent.compose_industry_news, control_agent.py:32-118.            *)
(***************************************************************************)
\* line 43: f"session_{datetime.now().strftime('%Y%m%d_%H%M%S')}"
TimeDerivedSessionId(t) == <<"session", t>>

\* lines 42-43
ResolveSessionId(given, t) ==
    IF given = NoSessionId THEN TimeDerivedSessionId(t) ELSE given

\* lines 113-117, with the session_id left out of the envelope
ErrorResponseWithoutSession(e, sid, t) == [error |-> e, timestamp |-> t]

\* lines 113-117: error_response
ErrorResponse(e, sid, t) == [error |-> e, session_id |-> sid, timestamp |-> t]

\* lines 112-118: except Exception as e: return error_response
Fail(e) ==
    /\ pc' = "Failed"
    /\ result' = ErrorResponse(e, call.session_id, now)

\* lines 32-43: the call starts; the previous call, if any, has returned
ComposeIndustryNews ==
    /\ pc \in BetweenCalls
    /\ ncalls < MaxCalls
    /\ ncalls' = ncalls + 1
    /\ \E fps \in FocusLists, given \in {NoSessionId} \cup CallerSessionIds,
          k \in 1..MaxResults :
          call' = [company_name |-> "Tesla", focus_points |-> fps,
                   session_id |-> ResolveSessionId(given, now),
                   max_results |-> k, time_period |-> "last_month"]
    /\ CallReset
    /\ result' = NoValue
    /\ pc' = "Initialized"
    /\ UNCHANGED <<config, now, next_id, texts_served, session_history,
                   collection, history_file>>

\* lines 47-50 and news_agent_plugin.py:60-99
ExtractSearchKeywords ==
    /\ pc = "Initialized"
    /\ \E r \in LlmResponses(call.focus_points) :
          /\ llm_response' = r.kind
          /\ IF r.kind = "raise"
             THEN /\ Fail("CompletionServiceError")
                  /\ UNCHANGED keywords_result
             ELSE /\ keywords_result' = ParseLlmOutput(r)
                  /\ pc' = "KeywordsExtracted"
                  /\ UNCHANGED result
    /\ UNCHANGED <<chunkVars, baseVars, call, search_i, articles, ingestVars,
                   composed_results>>

\* lines 53-56: keywords_result["industry"], keywords_result["keywords"] on a
\* value that has no such keys
FetchBadKeywords ==
    /\ pc = "KeywordsExtracted"
    /\ keywords_result.kind # "dict"
    /\ Fail("KeyError")
    /\ UNCHANGED <<chunkVars, baseVars, callVars, ingestVars, composed_results>>

(***************************************************************************)
(* NewsAgentPlugin.fetch_industry_news, news_agent_plugin.py:101-128.      *)
(***************************************************************************)
\* lines 120-126
Article(page, item) ==
    [url |-> page.link, title |-> page.title, snippet |-> page.snippet,
     keywords |-> item[2], focus_point |-> item[1]]

\* lines 105-126: one item of keywords; search.get_dict() raises, answers
\* without "organic_results", or lists pages
SearchFocusPoint ==
    /\ pc = "KeywordsExtracted"
    /\ keywords_result.kind = "dict"
    /\ search_i < Len(keywords_result.keywords)
    /\ LET item == keywords_result.keywords[search_i + 1]
       IN  \/ /\ Fail("SearchError")
              /\ UNCHANGED <<search_i, articles>>
           \/ /\ search_i' = search_i + 1
              /\ UNCHANGED <<articles, pc, result>>
           \/ /\ \E pages \in OrganicResults :
                    articles' = articles \o
                        [j \in 1..Len(pages) |-> Article(pages[j], item)]
              /\ search_i' = search_i + 1
              /\ UNCHANGED <<pc, result>>
    /\ UNCHANGED <<chunkVars, baseVars, call, llm_response, keywords_result,
                   ingestVars, composed_results>>

\* line 128: return articles
NewsFetched ==
    /\ pc = "KeywordsExtracted"
    /\ keywords_result.kind = "dict"
    /\ search_i = Len(keywords_result.keywords)
    /\ pc' = "NewsFetched"
    /\ UNCHANGED <<chunkVars, agentVars>>

(***************************************************************************)
(* NewsAgentPlugin.process_articles, news_agent_plugin.py:130-167.         *)
(***************************************************************************)
\* lines 134-141: scrape_article gives '' (a failed fetch, or a page with no
\* text) and the article is skipped, or a text, which chunk_text is called on
ScrapeArticle ==
    /\ pc = "NewsFetched"
    /\ Len(fetched) < Len(articles)
    /\ \E content \in {<<>>} \cup (IF texts_served < MaxTexts THEN {ArticleText} ELSE {}) :
          /\ fetched' = Append(fetched, content)
          /\ IF content = <<>>
             THEN UNCHANGED <<chunkVars, pc, texts_served>>
             ELSE /\ ChunkEnter(content, config.size, config.overlap)
                  /\ texts_served' = texts_served + 1
                  /\ pc' = "chunk_loop"
    /\ UNCHANGED <<config, now, next_id, ncalls, session_history, collection,
                   history_file, callVars, article_id, chunk_i, processed_data,
                   store_i, outVars>>

\* text_processing.py:31 and lines 141-144: chunk_text returns, the article
\* gets its article_id
ArticleChunked ==
    /\ pc = "chunk_loop"
    /\ ~(start < Len(text))
    /\ article_id' = next_id
    /\ next_id' = next_id + 1
    /\ chunk_i' = 0
    /\ pc' = IF chunks = <<>> THEN "NewsFetched" ELSE "embedding"
    /\ UNCHANGED <<chunkVars, config, now, ncalls, texts_served, session_history,
                   collection, history_file, callVars, fetched, processed_data,
                   store_i, outVars>>

\* lines 154-165
Row(article, chunk, chunk_id) ==
    [link |-> article.url, title |-> article.title, snippet |-> article.snippet,
     keywords |-> article.keywords, session_id |-> call.session_id,
     category |-> article.focus_point, chunked_text |-> chunk,
     chunk_id |-> chunk_id, article_id |-> article_id,
     embedding |-> <<"embedding", chunk>>]

\* lines 147-165: one chunk; generate_embeddings_async raises or answers
EmbedChunk ==
    /\ pc = "embedding"
    /\ chunk_i < Len(chunks)
    /\ next_id' = next_id + 1
    /\ \/ /\ Fail("EmbeddingServiceError")
          /\ UNCHANGED <<chunk_i, processed_data>>
       \/ /\ processed_data' = Append(processed_data,
                 Row(articles[Len(fetched)], chunks[chunk_i + 1], next_id))
          /\ chunk_i' = chunk_i + 1
          /\ pc' = IF chunk_i + 1 = Len(chunks) THEN "NewsFetched" ELSE "embedding"
          /\ UNCHANGED result
    /\ UNCHANGED <<chunkVars, config, now, ncalls, texts_served, session_history,
                   collection, history_file, callVars, fetched, article_id,
                   store_i, composed_results>>

\* line 167: return pd.DataFrame(processed_data)
ArticlesProcessed ==
    /\ pc = "NewsFetched"
    /\ Len(fetched) = Len(articles)
    /\ pc' = "Processed"
    /\ UNCHANGED <<chunkVars, agentVars>>

(***************************************************************************)
(* NewsAgentPlugin.store_in_vector_db, news_agent_plugin.py:169-185.       *)
(***************************************************************************)
\* lines 172-185
Entry(row) ==
    [id |-> row.chunk_id, embedding |-> row.embedding,
     metadata |-> [link |-> row.link, title |-> row.title,
                   snippet |-> row.snippet, keywords |-> row.keywords,
                   session_id |-> row.session_id, category |-> row.category,
                   article_id |-> row.article_id],
     document |-> row.chunked_text]

\* lines 171-185, with each article's rows added as soon as the article is
\* embedded, while process_articles still has articles to handle
StoreRowDuringProcessing ==
    /\ pc \in {"NewsFetched", "Processed"}
    /\ store_i < Len(processed_data)
    /\ \/ /\ Fail("IndexError")
          /\ UNCHANGED <<store_i, collection>>
       \/ /\ collection' = Append(collection, Entry(processed_data[store_i + 1]))
          /\ store_i' = store_i + 1
          /\ UNCHANGED <<pc, result>>
    /\ UNCHANGED <<chunkVars, config, now, next_id, ncalls, texts_served,
                   session_history, history_file, callVars, fetched, article_id,
                   chunk_i, processed_data, composed_results>>

\* lines 171-185: one row; collection.add raises or stores the entry
StoreRow ==
    /\ pc = "Processed"
    /\ store_i < Len(processed_data)
    /\ \/ /\ Fail("IndexError")
          /\ UNCHANGED <<store_i, collection>>
       \/ /\ collection' = Append(collection, Entry(processed_data[store_i + 1]))
          /\ store_i' = store_i + 1
          /\ UNCHANGED <<pc, result>>
    /\ UNCHANGED <<chunkVars, config, now, next_id, ncalls, texts_served,
                   session_history, history_file, callVars, fetched, article_id,
                   chunk_i, processed_data, composed_results>>

\* control_agent.py:68-75, entered while rows are still to be stored
BeginReportEarly ==
    /\ pc = "Processed"
    /\ composed_results' =
          [company |-> call.company_name,
           industry |-> keywords_result.industry,
           focus_points |-> call.focus_points,
           session_id |-> call.session_id,
           timestamp |-> now,
           news_summary |-> <<>>]
    /\ pc' = "Ingested"
    /\ UNCHANGED <<chunkVars, baseVars, callVars, ingestVars, result>>

\* control_agent.py:68-75, with the session record of lines 103-108 written
\* here, before the retrievals
BeginReportWritingRecord ==
    /\ pc = "Processed"
    /\ store_i = Len(processed_data)
    /\ composed_results' =
          [company |-> call.company_name,
           industry |-> keywords_result.industry,
           focus_points |-> call.focus_points,
           session_id |-> call.session_id,
           timestamp |-> now,
           news_summary |-> <<>>]
    /\ session_history' =
          [sid \in DOMAIN session_history \cup {call.session_id} |->
              IF sid = call.session_id
              THEN [timestamp |-> now, company |-> call.company_name,
                    industry |-> keywords_result.industry,
                    focus_points |-> call.focus_points]
              ELSE session_history[sid]]
    /\ pc' = "Ingested"
    /\ UNCHANGED <<chunkVars, config, now, next_id, ncalls, texts_served,
                   collection, history_file, callVars, ingestVars, result>>

\* control_agent.py:68-75: every row is stored, the report is set up
BeginReport ==
    /\ pc = "Processed"
    /\ store_i = Len(processed_data)
    /\ composed_results' =
          [company |-> call.company_name,
           industry |-> keywords_result.industry,
           focus_points |-> call.focus_points,
           session_id |-> call.session_id,
           timestamp |-> now,
           news_summary |-> <<>>]
    /\ pc' = "Ingested"
    /\ UNCHANGED <<chunkVars, baseVars, callVars, ingestVars, result>>

(***************************************************************************)
(* NewsAgentPlugin.retrieve_from_vector_db, news_agent_plugin.py:187-206.  *)
(***************************************************************************)
\* The orders in which the embedding space can rank the n entries of the
\* collection against a query, nearest first: the model offers two of them,
\* oldest entry nearest and newest entry nearest.
Rankings(n) == {[j \in 1..n |-> j], [j \in 1..n |-> n + 1 - j]}

AscendingSeqs(k) ==
    {d \in [1..k -> Distances] : \A a \in 1..(k - 1) : d[a] <= d[a + 1]}

\* lines 193-206: the n_results nearest entries (all of them when the
\* collection holds fewer), nearest first, each with its distance
QueryResults(coll, n_results) ==
    LET k == Min(n_results, Len(coll))
    IN  {[j \in 1..k |-> [text |-> coll[q[j]].document,
                          metadata |-> coll[q[j]].metadata,
                          distance |-> d[j]]] :
         q \in Rankings(Len(coll)), d \in AscendingSeqs(k)}

(***************************************************************************)
(* compose_industry_news, control_agent.py:77-110.                         *)
(***************************************************************************)
\* lines 91-97; relevance_score in tenths, text_snippet is text[:200] + "..."
ArticleSummary(r) ==
    [title |-> r.metadata.title, url |-> r.metadata.link,
     snippet |-> r.metadata.snippet, relevance_score |-> 10 - r.distance,
     text_snippet |-> PySlice(r.text, 0, 200) \o <<".", ".", ".">>]

\* lines 85-100
FocusPointSummary(fp, results) ==
    [focus_point |-> fp,
     articles |-> [j \in 1..Len(results) |-> ArticleSummary(results[j])]]

\* line 100, with the block put in front of the list
AddSummaryInFront(summary, block) == <<block>> \o summary

\* line 100: composed_results["news_summary"].append(focus_point_summary)
AddSummary(summary, block) == Append(summary, block)

\* lines 78-100: one focus point; the retrieval raises (the query's
\* embedding, or the index's query) or answers
RetrieveFocusPoint ==
    /\ pc = "Ingested"
    /\ Len(composed_results.news_summary) < Len(call.focus_points)
    /\ LET fp == call.focus_points[Len(composed_results.news_summary) + 1]
       IN  \/ /\ Fail("RetrievalError")
              /\ UNCHANGED composed_results
           \/ /\ \E results \in QueryResults(collection, call.max_results) :
                    composed_results' =
                        [composed_results EXCEPT !.news_summary =
                            AddSummary(@, FocusPointSummary(fp, results))]
              /\ UNCHANGED <<pc, result>>
    /\ UNCHANGED <<chunkVars, baseVars, callVars, ingestVars>>

\* lines 103-108
SessionRecord ==
    [timestamp |-> now, company |-> call.company_name,
     industry |-> keywords_result.industry, focus_points |-> call.focus_points]

\* lines 103-110: the session record is written and the report returned
ReturnReport ==
    /\ pc = "Ingested"
    /\ Len(composed_results.news_summary) = Len(call.focus_points)
    /\ session_history' =
          [sid \in DOMAIN session_history \cup {call.session_id} |->
              IF sid = call.session_id THEN SessionRecord
              ELSE session_history[sid]]
    /\ result' = composed_results
    /\ pc' = "Composed"
    /\ UNCHANGED <<chunkVars, config, now, next_id, ncalls, texts_served,
                   collection, history_file, callVars, ingestVars,
                   composed_results>>

\* the wall clock moves on; the model lets it move between calls, so the
\* readings within one call (lines 43, 73, 104, 116) agree
Tick ==
    /\ pc \in BetweenCalls
    /\ now < MaxTime
    /\ now' = now + 1
    /\ UNCHANGED <<chunkVars, pc, config, next_id, ncalls, texts_served,
                   session_history, collection, history_file, callVars,
                   ingestVars, outVars>>

(***************************************************************************)
(* Spec: a ControlAgent after __init__ (control_agent.py:10-15), on which  *)
(* compose_industry_news is called up to MaxCalls times, one call at a     *)
(* time.                                                                   *)
(***************************************************************************)
Init ==
    /\ text = <<>>
    /\ chunk_size = 0
    /\ overlap = 0
    /\ start = 0
    /\ chunks = <<>>
    /\ windows = <<>>
    /\ pc = "idle"
    /\ config \in Settings
    /\ AgentIdle

Next ==
    \/ ComposeIndustryNews
    \/ ExtractSearchKeywords
    \/ FetchBadKeywords
    \/ SearchFocusPoint
    \/ NewsFetched
    \/ ScrapeArticle
    \/ ChunkIter
    \/ ArticleChunked
    \/ EmbedChunk
    \/ ArticlesProcessed
    \/ StoreRow
    \/ BeginReport
    \/ RetrieveFocusPoint
    \/ ReturnReport
    \/ Tick

Spec == Init /\ [][Next]_vars

(***************************************************************************)
(* FirstCallSpec: the first compose_industry_news call on a ControlAgent   *)
(* after __init__, from its start to its return (the claims about what one *)
(* call does and returns).                                                 *)
(***************************************************************************)
FirstCall == ncalls = 0 /\ ComposeIndustryNews

FirstCallNext ==
    \/ FirstCall
    \/ ExtractSearchKeywords
    \/ FetchBadKeywords
    \/ SearchFocusPoint
    \/ NewsFetched
    \/ ScrapeArticle
    \/ ChunkIter
    \/ ArticleChunked
    \/ EmbedChunk
    \/ ArticlesProcessed
    \/ StoreRow
    \/ BeginReport
    \/ RetrieveFocusPoint
    \/ ReturnReport
    \/ Tick

FirstCallSpec == Init /\ [][FirstCallNext]_vars

(***************************************************************************)
(* ControlAgent.save_session_history and load_session_history,             *)
(* control_agent.py:124-135.                                               *)
(***************************************************************************)
\* line 128: json.dump(self.session_history, f). The keys of the history are
\* strings and its records hold strings and a list of strings, which JSON
\* writes and reads back as they are; the file holds the mapping dumped.
JsonDump(history) == [kind |-> "file", content |-> history]

\* line 135: json.load(f)
JsonLoad(file) == file.content

\* lines 124-128: the file is created or overwritten
SaveSessionHistory ==
    /\ pc \in BetweenCalls
    /\ history_file' = JsonDump(session_history)
    /\ pc' = "Saved"
    /\ UNCHANGED <<chunkVars, config, now, next_id, ncalls, texts_served,
                   session_history, collection, callVars, ingestVars, outVars>>

\* lines 130-135: the history is replaced by the file's content if the file
\* exists; if it does not, the method returns without an assignment
LoadSessionHistory ==
    /\ pc \in BetweenCalls
    /\ IF history_file # MissingFile
       THEN session_history' = JsonLoad(history_file)
       ELSE UNCHANGED session_history
    /\ pc' = "Loaded"
    /\ UNCHANGED <<chunkVars, config, now, next_id, ncalls, texts_served,
                   collection, history_file, callVars, ingestVars, outVars>>

(***************************************************************************)
(* HistorySpec: a ControlAgent after __init__, with no session_history.json*)
(* on disk, on which compose_industry_news is called once and              *)
(* save_session_history and load_session_history any number of times,      *)
(* before or after that call.                                              *)
(***************************************************************************)
HistoryNext ==
    \/ FirstCall
    \/ ExtractSearchKeywords
    \/ FetchBadKeywords
    \/ SearchFocusPoint
    \/ NewsFetched
    \/ ScrapeArticle
    \/ ChunkIter
    \/ ArticleChunked
    \/ EmbedChunk
    \/ ArticlesProcessed
    \/ StoreRow
    \/ BeginReport
    \/ RetrieveFocusPoint
    \/ ReturnReport
    \/ Tick
    \/ SaveSessionHistory
    \/ LoadSessionHistory

HistorySpec == Init /\ [][HistoryNext]_vars

(***************************************************************************)
(* Claims about chunk_text, checked under ChunkSpec.                       *)
(***************************************************************************)
ValidSettings == chunk_size > 0 /\ 0 <= overlap /\ overlap < chunk_size

LastWindow == windows[Len(windows)]

\* C1: under valid settings (chunk_size > 0, 0 <= overlap < chunk_size)
\* chunk_text terminates: its cursor loop stops once the emitted window has
\* reached the end of the text, that is, after such a window the loop
\* condition start < len(text) is false.
C1_LoopStopsAtEndOfText ==
    (ValidSettings /\ windows # <<>> /\ LastWindow[2] = Len(text))
        => ~(start < Len(text))

\* C2: with overlap >= chunk_size chunk_text never loops forever. The code
\* raises no configuration error, so it would have to return; the next
\* cursor is a non-decreasing function of the cursor, so the loop returns
\* exactly if every iteration moves the cursor forward.
C2_CursorAdvancesUnderLargeOverlap ==
    [][(overlap >= chunk_size /\ pc = "chunk_loop" /\ windows' # windows)
          => start' > start]_vars

\* C3: for a non-empty text no longer than chunk_size, and any overlap,
\* chunk_text returns exactly [text]: the list it builds is never anything
\* but [] or [text], and it is [text] at the return.
C3_ShortTextIsOneChunk ==
    (text # <<>> /\ Len(text) <= chunk_size)
        => /\ chunks \in {<<>>, <<text>>}
           /\ pc = "chunk_done" => chunks = <<text>>

\* C4: under valid settings the emitted windows start at 0, leave no gap
\* between consecutive chunks, reach the end of the text at the return, and
\* every chunk but the last has length exactly chunk_size.
C4_ChunkCoverage ==
    ValidSettings =>
        /\ windows # <<>> => windows[1][1] = 0
        /\ \A i \in 1..(Len(windows) - 1) : windows[i + 1][1] <= windows[i][2]
        /\ \A i \in 1..(Len(chunks) - 1) : Len(chunks[i]) = chunk_size
        /\ (pc = "chunk_done" /\ text # <<>>) => LastWindow[2] = Len(text)

(***************************************************************************)
(* Claims about one compose_industry_news call, checked under             *)
(* FirstCallSpec.                                                          *)
(***************************************************************************)
Returned == pc \in {"Composed", "Failed"}

IsReport(r) ==
    DOMAIN r = {"company", "industry", "focus_points", "session_id",
                "timestamp", "news_summary"}

IsErrorEnvelope(r) == DOMAIN r = {"error", "session_id", "timestamp"}

\* C5: when the completion service's answer to the keyword prompt is empty
\* or does not parse, the call returns an error envelope (error, session_id,
\* timestamp) and never a report with a news_summary.
C5_KeywordFailureGivesEnvelope ==
    (Returned /\ llm_response \in {"empty", "unparseable"})
        => IsErrorEnvelope(result) /\ "news_summary" \notin DOMAIN result

\* C6: an embedding call that fails for one chunk during ingestion skips
\* that chunk only: the call does not end in Failed because of it.
C6_EmbeddingFailureSkipsOnlyTheChunk ==
    pc = "Failed" => result.error # "EmbeddingServiceError"

BatchHasFailedFetch == \E j \in 1..Len(fetched) : fetched[j] = <<>>

\* C7: in a batch where one article's fetch fails or gives no text, that
\* article contributes no chunk, and every article whose fetch succeeds gets
\* through ingestion: chunk_text returns on its text once the window that
\* reaches the end of the text is emitted (its chunks are written and the
\* report returned only after that).
C7_FailedFetchLeavesTheOthersIngested ==
    BatchHasFailedFetch =>
        /\ \A j \in 1..Len(processed_data) :
              \E a \in 1..Len(fetched) :
                  /\ fetched[a] # <<>>
                  /\ articles[a].url = processed_data[j].link
                  /\ articles[a].focus_point = processed_data[j].category
        /\ (pc = "chunk_loop" /\ windows # <<>> /\ LastWindow[2] = Len(text))
              => ~(start < Len(text))

\* C8: whichever collaborator fails, at whichever stage, what the call
\* returns is a report (company, industry, focus_points, session_id,
\* timestamp, news_summary) or an error envelope with exactly error,
\* session_id and timestamp; a failure always ends in the envelope.
C8_ReturnsReportOrEnvelope ==
    /\ pc = "Composed" => IsReport(result)
    /\ pc = "Failed" => IsErrorEnvelope(result)

\* a collaborator failed late in the call (the index, on a write) and the
\* call returned the envelope
C8_Witness ==
    /\ pc = "Failed"
    /\ IsErrorEnvelope(result)
    /\ result.error = "IndexError"
    /\ store_i > 0

\* C9: every call reaches Composed or Failed; no stage loops indefinitely.
\* The only loop of a call whose trip count is not the length of a list
\* built before it is chunk_text's; it is deterministic in its cursor, so
\* once it has emitted the same window twice in a row it emits it forever.
C9_NoStageLoopsForever ==
    ~(/\ pc = "chunk_loop"
      /\ Len(windows) >= 2
      /\ windows[Len(windows)] = windows[Len(windows) - 1]
      /\ start = LastWindow[1])

\* C10: a report's news_summary has one entry per element of focus_points,
\* in the order of focus_points, however many results each retrieval gave.
C10_SummaryFollowsFocusPoints ==
    pc = "Composed" =>
        /\ Len(result.news_summary) = Len(call.focus_points)
        /\ \A j \in 1..Len(call.focus_points) :
              result.news_summary[j].focus_point = call.focus_points[j]

\* a report for two different focus points, one retrieval of which gave a
\* result
C10_Witness ==
    /\ pc = "Composed"
    /\ call.focus_points = <<"B", "A">>
    /\ result.news_summary[2].articles # <<>>

\* C11: a search that fails for one focus point does not abort the call:
\* the articles of the other focus points are still aggregated and ingested,
\* so no call ends in Failed because the search collaborator raised.
C11_SearchFailureIsIsolated ==
    ~(/\ pc = "Failed"
      /\ result.error = "SearchError"
      /\ search_i < Len(keywords_result.keywords))

\* C12: a retrieval that fails for one focus point is isolated to it: the
\* blocks of the other focus points are still produced and the caller gets a
\* report, so no call ends in Failed because the retrieval raised.
C12_RetrievalFailureIsIsolated ==
    ~(/\ pc = "Failed"
      /\ result.error = "RetrievalError"
      /\ Len(composed_results.news_summary) < Len(call.focus_points))

(***************************************************************************)
(* Claims about several compose_industry_news calls on one ControlAgent    *)
(* (one vector index, one session history), checked under Spec.            *)
(***************************************************************************)
\* the articles listed so far in the report of the call in flight, or in the
\* report it returned
ListedArticles ==
    IF pc \in {"Ingested", "Composed"}
    THEN UNION {{composed_results.news_summary[b].articles[j] :
                    j \in 1..Len(composed_results.news_summary[b].articles)} :
                b \in 1..Len(composed_results.news_summary)}
    ELSE {}

\* entry e of the index is a chunk that article summary a can have been
\* made from
ComesFrom(a, e) ==
    /\ a.url = e.metadata.link
    /\ a.title = e.metadata.title
    /\ a.text_snippet = PySlice(e.document, 0, 200) \o <<".", ".", ".">>

\* C13: sessions are isolated by session_id: every article listed in the
\* report of session S comes from a chunk of the index whose metadata
\* session_id is S; a chunk ingested under another session never appears.
C13_ReportListsOwnSessionOnly ==
    \A a \in ListedArticles :
        \E j \in 1..Len(collection) :
            /\ collection[j].metadata.session_id = call.session_id
            /\ ComesFrom(a, collection[j])

\* C14: a session record is written once and never mutated: once
\* session_history holds a record under a session_id, no later step of any
\* compose_industry_news call (caller-supplied or time-derived id) removes
\* or changes the record under that key.
C14_SessionRecordNeverMutated ==
    [][\A sid \in DOMAIN session_history :
          /\ sid \in DOMAIN session_history'
          /\ session_history'[sid] = session_history[sid]]_vars

(***************************************************************************)
(* Claims about the session history file, checked under HistorySpec.       *)
(***************************************************************************)
\* C15: load_session_history on a file that does not exist raises no error
\* and leaves session_history equal to the empty mapping, whatever the
\* history held before the call.
C15_LoadOfMissingFileGivesEmptyHistory ==
    [][(LoadSessionHistory /\ history_file = MissingFile)
          => session_history' = <<>>]_vars

(***************************************************************************)
(* A further claim about chunk_text, checked under ChunkSpec.              *)
(***************************************************************************)
\* C16: for the empty text, and any chunk_size and overlap, chunk_text
\* terminates and returns the empty sequence: the loop condition is false
\* from the start, so no window is ever emitted and the list returned is [].
C16_EmptyTextGivesNoChunk ==
    text = <<>> =>
        /\ ~(start < Len(text))
        /\ chunks = <<>>
        /\ windows = <<>>

\* chunk_text has returned on the empty text, called with an overlap larger
\* than the chunk size
C16_Witness ==
    /\ pc = "chunk_done"
    /\ text = <<>>
    /\ overlap > chunk_size
    /\ chunks = <<>>

(***************************************************************************)
(* Claims about the order of the stages of one call, checked under         *)
(* FirstCallSpec, and about what a failed call leaves behind, checked      *)
(* under Spec.                                                             *)
(***************************************************************************)
KeywordsReturned == keywords_result # NoValue

BatchProcessed ==
    /\ keywords_result.kind = "dict"
    /\ search_i = Len(keywords_result.keywords)
    /\ Len(fetched) = Len(articles)
    /\ pc \notin {"NewsFetched", "chunk_loop", "embedding"}

BatchStored == BatchProcessed /\ store_i = Len(processed_data)

\* C17: within one call the stages come strictly in the order keyword
\* extraction, search, ingestion (fetch, chunk, embed, then the index
\* writes), retrieval, session-record write: a search is issued only after
\* keyword extraction returned, an article is scraped only after the last
\* search, the index is written only after every article was processed, a
\* retrieval (answered or failing) is issued only after every row of the
\* batch was written, and the session record is written only after the
\* last retrieval.
C17_StagesInOrder ==
    [][/\ (search_i' > search_i \/ (pc' = "Failed" /\ result'.error = "SearchError"))
            => KeywordsReturned
       /\ Len(fetched') > Len(fetched)
            => (KeywordsReturned /\ search_i = Len(keywords_result.keywords))
       /\ Len(collection') > Len(collection) => BatchProcessed
       /\ (\/ (composed_results # NoValue /\ composed_results' # composed_results)
           \/ (pc' = "Failed" /\ result'.error = "RetrievalError"))
            => BatchStored
       /\ session_history' # session_history
            => /\ BatchStored
               /\ composed_results # NoValue
               /\ Len(composed_results.news_summary) = Len(call.focus_points)]_vars

\* a call that went through every stage: two searches, two rows written to
\* the index, two retrievals that listed an article, and the record written
C17_Witness ==
    /\ pc = "Composed"
    /\ search_i = 2
    /\ Len(collection) >= 2
    /\ Len(result.news_summary) = 2
    /\ result.news_summary[1].articles # <<>>
    /\ call.session_id \in DOMAIN session_history

\* C18: a call that returns an error envelope leaves session_history
\* unchanged: no step into Failed changes it, and the only step of a call
\* that changes it is the one into Composed, which returns a report and
\* adds or sets the record of the call's session_id and nothing else.
C18_FailedCallLeavesHistoryUnchanged ==
    [][/\ pc' = "Failed" => session_history' = session_history
       /\ session_history' # session_history
            => /\ pc = "Ingested" /\ pc' = "Composed"
               /\ IsReport(result')
               /\ DOMAIN session_history' = DOMAIN session_history \cup {call.session_id}
               /\ \A sid \in DOMAIN session_history \ {call.session_id} :
                     session_history'[sid] = session_history[sid]]_vars

\* a second call, under a session id of its own, got as far as the
\* retrievals and returned the error envelope; the history holds the first
\* call's record and none for the second
C18_Witness ==
    /\ pc = "Failed"
    /\ IsErrorEnvelope(result)
    /\ result.error = "RetrievalError"
    /\ ncalls = 2
    /\ session_history # <<>>
    /\ call.session_id \notin DOMAIN session_history

\* C19: no chunk of a batch is written to the vector index until every
\* article of the batch has been fetched, chunked and embedded; if
\* process_articles raises (an embedding failure), the index is unchanged by
\* the call (it is empty before the first call on an agent).
C19_NoIndexWriteBeforeBatchProcessed ==
    /\ collection # <<>> => BatchProcessed
    /\ (pc = "Failed" /\ result.error = "EmbeddingServiceError")
          => (collection = <<>> /\ store_i = 0)

\* process_articles raised on an embedding after it had embedded an earlier
\* chunk of the batch, and nothing was written to the index
C19_Witness ==
    /\ pc = "Failed"
    /\ result.error = "EmbeddingServiceError"
    /\ processed_data # <<>>
    /\ collection = <<>>

====
